---- MODULE Spec2Model ----
(***************************************************************************)
(* A model of the elastic worker pool of pool.go: the Pool (NewPool,       *)
(* startPool, DoJob, getWorkStep, the two selectors, newTempWorker,        *)
(* removeFromParent, Close) and the workers it drives.  Every shared       *)
(* memory access of pool.go is one step of the thread that makes it, so    *)
(* that the interleavings of concurrent DoJob and Close calls and of the   *)
(* workers' goroutines are the behaviours of the model.  The worker type   *)
(* (newWorker, startWorker, sendJob, IsBlocking) is not part of pool.go;   *)
(* it is modelled from section 4.1 of the specification.                   *)
(***************************************************************************)
EXTENDS Integers, Sequences, FiniteSets, TLC

(* ------------------------------ bounds -------------------------------- *)
MaxWorkerNum == 2       \* conf.WorkerNum ranges over 1..MaxWorkerNum
MaxContent == 2         \* conf.WorkerContent ranges over 1..MaxContent
MaxTemp == 3            \* temporary workers ever spawned
NumCallers == 2         \* goroutines calling DoJob
NumClosers == 2         \* goroutines calling Close
MaxCalls == 2           \* DoJob calls of each caller, concurrent runs
MaxSeqCalls == 3        \* DoJob calls of the one caller, sequential runs
MaxDrainCalls == 4      \* DoJob calls of the one caller, shutdown runs
MaxBurstCalls == 5      \* DoJob calls of the one caller, no job completing
MaxCloseCalls == 2      \* Close calls of the one closer, sequential runs
MaxOps == 4             \* DoJob and Close calls started in one run

(* ------------------------- program constants -------------------------- *)
ETERNAL == 1
TEMPORARY == 2
MinWorkerNum == 2       \* NewPool panics below it
ClosedFlag == 1         \* isClose = 1: closed
OpenFlag == 2           \* isClose = 2: open
RetryNum == 3           \* getWorkStep(3, 1, f)

Callers == 1..NumCallers
Closers == 1..NumClosers
EternalIds == 1..MaxWorkerNum
TempIds == {MaxWorkerNum + k : k \in 1..MaxTemp}
WorkerIds == EternalIds \cup TempIds
NoWorker == 0           \* a nil *worker

Free == <<"free", 0>>
ByCaller(c) == <<"caller", c>>
ByWorker(w) == <<"worker", w>>

VARIABLES
    conf,             \* TaskConf: WorkerNum, WorkerContent
    limit,            \* the calls each goroutine makes in this run
    poolpc,           \* position of NewPool / startPool
    isClose,          \* Pool.isClose
    cancelled,        \* Pool.cancelCtx is cancelled (p.cancel() was called)
    eternalWorker,    \* Pool.eternalWorker
    temporaryWorker,  \* Pool.temporaryWorker: nil, or a slice of workers
    lockTemporary,    \* Pool.lockTemporary: Free or its holder
    hdr,              \* the value of p.temporaryWorker its holder has read
    wg,               \* the sync.WaitGroup counter
    panicked,         \* a goroutine panicked: the process is gone
    wpc,              \* worker -> position of its goroutine
    jobNum,           \* worker -> worker.jobNum
    queue,            \* worker -> jobs it holds (queued or in flight)
    Blocking,         \* worker -> worker.Blocking
    th,               \* caller -> the frame of its DoJob call
    calls,            \* caller -> DoJob calls it has started
    cl,               \* closer -> position in Close
    closes,           \* closer -> Close calls it has started
    ops               \* DoJob and Close calls started so far

poolVars == <<conf, limit, poolpc, isClose, cancelled, eternalWorker>>
tempVars == <<temporaryWorker, lockTemporary, hdr>>
workerVars == <<wpc, jobNum, queue, Blocking>>
callerVars == <<th, calls, ops>>
closerVars == <<cl, closes>>
vars == <<conf, limit, poolpc, isClose, cancelled, eternalWorker, temporaryWorker,
          lockTemporary, hdr, wg, panicked, wpc, jobNum, queue, Blocking, th,
          calls, cl, closes, ops>>

(* ------------------------------ helpers -------------------------------- *)
WorkType(w) == IF w \in TempIds THEN TEMPORARY ELSE ETERNAL

\* Go's integer division truncates toward zero.
GoDiv(a, b) == IF a >= 0 THEN a \div b ELSE -((-a) \div b)

NilSlice == [isNil |-> TRUE, ws |-> <<>>]
Slice(s) == [isNil |-> FALSE, ws |-> s]

\* The frame of a DoJob call.  ticks counts the receptions from ticker.C of
\* the call, fw is the worker the test of line 95 found admissible, sp the
\* worker the call spawned.
IdleFrame == [pc |-> "idle", stage |-> "none", n |-> 0, w1 |-> NoWorker,
              w2 |-> NoWorker, arg |-> 0, w |-> NoWorker, ret |-> "none",
              sp |-> NoWorker, ticks |-> 0, fw |-> NoWorker]

isClosed == isClose = ClosedFlag

\* context.Context of a worker: eternal workers share the master context,
\* a temporary worker has a child of it with a timeout.
Running == poolpc = "ready" /\ ~panicked

(* ------------------------------- Init ---------------------------------- *)
InitCommon ==
    /\ conf \in [WorkerNum : 1..MaxWorkerNum, WorkerContent : 1..MaxContent]
    /\ poolpc = "NewPool"
    /\ isClose = ClosedFlag
    /\ cancelled = FALSE
    /\ eternalWorker = <<>>
    /\ temporaryWorker = NilSlice
    /\ lockTemporary = Free
    /\ hdr = <<>>
    /\ wg = 0
    /\ panicked = FALSE
    /\ wpc = [w \in WorkerIds |-> "none"]
    /\ jobNum = [w \in WorkerIds |-> 0]
    /\ queue = [w \in WorkerIds |-> 0]
    /\ Blocking = [w \in WorkerIds |-> FALSE]
    /\ th = [c \in Callers |-> IdleFrame]
    /\ cl = [k \in Closers |-> "idle"]
    /\ calls = [c \in Callers |-> 0]
    /\ closes = [k \in Closers |-> 0]
    /\ ops = 0

Init ==
    /\ InitCommon
    /\ limit = [calls |-> [c \in Callers |-> MaxCalls],
                closes |-> [k \in Closers |-> 1],
                ops |-> MaxOps]

\* One caller making n calls and one closer making m calls, one call after
\* another.
SeqLimit(n, m) == [calls |-> [c \in Callers |-> IF c = 1 THEN n ELSE 0],
                   closes |-> [k \in Closers |-> IF k = 1 THEN m ELSE 0],
                   ops |-> n + m]

InitSeq == InitCommon /\ limit = SeqLimit(MaxSeqCalls, MaxCloseCalls)

\* One caller making its calls while one Close call shuts the pool down.
InitDrain == InitCommon /\ limit = SeqLimit(MaxDrainCalls, 1)

\* One caller submitting a burst of jobs to a pool that stays open.
InitBurst == InitCommon /\ limit = SeqLimit(MaxBurstCalls, 0)

\* The contents the temporary registry can have with the workers of S: their
\* identities come from GetUUID(), so they are distinct and in any order.
Registries(S) ==
    {s \in UNION {[1..n -> S] : n \in 0..Cardinality(S)} :
        \A i, j \in 1..Len(s) : i # j => s[i] # s[j]}

\* An open pool at the moment its temporary workers expire: every job is
\* done, no call is in progress, the workers of S were spawned and those of
\* reg are registered (a spawned worker can be missing from the registry,
\* see newTempWorker and getWorkerFromTemp).
InitRemove ==
    /\ conf \in [WorkerNum : MinWorkerNum..MaxWorkerNum,
                  WorkerContent : 1..MaxContent]
    /\ limit = SeqLimit(0, 0)
    /\ poolpc = "ready"
    /\ isClose = OpenFlag
    /\ cancelled = FALSE
    /\ eternalWorker = [i \in 1..conf.WorkerNum |-> i]
    /\ \E S \in SUBSET TempIds :
         /\ temporaryWorker \in {Slice(reg) : reg \in Registries(S)}
         /\ wpc = [w \in WorkerIds |->
                     IF w \in S \/ w \in 1..conf.WorkerNum THEN "run" ELSE "none"]
         /\ wg = conf.WorkerNum + Cardinality(S)
    /\ lockTemporary = Free
    /\ hdr = <<>>
    /\ panicked = FALSE
    /\ jobNum = [w \in WorkerIds |-> 0]
    /\ queue = [w \in WorkerIds |-> 0]
    /\ Blocking = [w \in WorkerIds |-> FALSE]
    /\ th = [c \in Callers |-> IdleFrame]
    /\ cl = [k \in Closers |-> "idle"]
    /\ calls = [c \in Callers |-> 0]
    /\ closes = [k \in Closers |-> 0]
    /\ ops = 0

(* --------------------------- NewPool, startPool ------------------------ *)
NewPoolPanic ==
    /\ poolpc = "NewPool" /\ ~panicked
    /\ conf.WorkerNum < MinWorkerNum
    /\ panicked' = TRUE
    /\ UNCHANGED <<poolVars, tempVars, wg, workerVars, callerVars, closerVars>>

\* NewPool without its test of conf.WorkerNum.
NewPoolAllocNoTest ==
    /\ poolpc = "NewPool" /\ ~panicked
    /\ poolpc' = "startPool"
    /\ isClose' = ClosedFlag
    /\ eternalWorker' = <<>>
    /\ UNCHANGED <<conf, limit, cancelled, tempVars, wg, panicked, workerVars,
                   callerVars, closerVars>>

\* Lines 50-63.
NewPoolAlloc ==
    /\ poolpc = "NewPool" /\ ~panicked
    /\ conf.WorkerNum >= MinWorkerNum
    /\ poolpc' = "startPool"
    /\ isClose' = ClosedFlag
    /\ eternalWorker' = <<>>
    /\ UNCHANGED <<conf, limit, cancelled, tempVars, wg, panicked, workerVars,
                   callerVars, closerVars>>

\* The loop of startPool leaving one worker short.
startPoolDoneEarly == Len(eternalWorker) >= conf.WorkerNum - 1

\* The loop test of startPool, negated: i = Len(eternalWorker).
startPoolDone == Len(eternalWorker) >= conf.WorkerNum

startPoolSpawn ==
    /\ poolpc = "startPool" /\ ~startPoolDone
    /\ LET wid == Len(eternalWorker) + 1 IN
         /\ wpc' = [wpc EXCEPT ![wid] = "run"]
         /\ wg' = wg + 1
         /\ eternalWorker' = Append(eternalWorker, wid)
    /\ UNCHANGED <<conf, limit, poolpc, isClose, cancelled, tempVars, panicked, jobNum,
                   queue, Blocking, callerVars, closerVars>>

startPoolOpen ==
    /\ poolpc = "startPool" /\ startPoolDone
    /\ isClose' = isClose + 1
    /\ poolpc' = "ready"
    /\ UNCHANGED <<conf, limit, cancelled, eternalWorker, tempVars, wg, panicked,
                   workerVars, callerVars, closerVars>>

(* -------------------------------- Close -------------------------------- *)
\* CloseDec is line 266, CloseCancel line 267.
\* Close without its test of isClosed().
CloseCheckNoTest(k) ==
    /\ Running /\ cl[k] = "idle"
    /\ closes[k] < limit.closes[k] /\ ops < limit.ops
    /\ closes' = [closes EXCEPT ![k] = @ + 1]
    /\ ops' = ops + 1
    /\ cl' = [cl EXCEPT ![k] = "dec"]
    /\ UNCHANGED <<poolVars, tempVars, wg, panicked, workerVars, th, calls>>

\* Lines 261-264: the test of isClosed().
CloseCheck(k) ==
    /\ Running /\ cl[k] = "idle"
    /\ closes[k] < limit.closes[k] /\ ops < limit.ops
    /\ closes' = [closes EXCEPT ![k] = @ + 1]
    /\ ops' = ops + 1
    /\ cl' = [cl EXCEPT ![k] = IF isClosed THEN "idle" ELSE "dec"]
    /\ UNCHANGED <<poolVars, tempVars, wg, panicked, workerVars, th, calls>>

CloseDec(k) ==
    /\ Running /\ cl[k] = "dec"
    /\ isClose' = isClose - 1
    /\ cl' = [cl EXCEPT ![k] = "cancel"]
    /\ UNCHANGED <<conf, limit, poolpc, cancelled, eternalWorker, tempVars, wg,
                   panicked, workerVars, callerVars, closes>>

CloseCancel(k) ==
    /\ Running /\ cl[k] = "cancel"
    /\ cancelled' = TRUE
    /\ cl' = [cl EXCEPT ![k] = "idle"]
    /\ UNCHANGED <<conf, limit, poolpc, isClose, eternalWorker, tempVars, wg,
                   panicked, workerVars, callerVars, closes>>

(* ------------------------- the worker (spec 4.1) ----------------------- *)
\* sendJob: a non-blocking enqueue.  A full queue sets the backpressure flag
\* and fails; success increments jobNum.
sendJobOk(w) == queue[w] < conf.WorkerContent

\* The run loop takes a job, executes it, decrements jobNum and clears the
\* backpressure flag once the load is below the capacity.
WorkerJob(w) ==
    /\ Running /\ wpc[w] = "run" /\ queue[w] > 0
    /\ queue' = [queue EXCEPT ![w] = @ - 1]
    /\ jobNum' = [jobNum EXCEPT ![w] = @ - 1]
    /\ Blocking' = [Blocking EXCEPT ![w] =
                      IF jobNum[w] - 1 < conf.WorkerContent THEN FALSE ELSE @]
    /\ UNCHANGED <<poolVars, tempVars, wg, panicked, wpc, callerVars, closerVars>>

\* The worker's context is done: the master context was cancelled, or (a
\* temporary worker) its own timeout fired.
ctxDone(w) == cancelled \/ WorkType(w) = TEMPORARY

\* The run loop sees its context done.  A temporary worker goes on to call
\* its unregister callback; an eternal one exits and signals the WaitGroup.
WorkerCancel(w) ==
    /\ Running /\ wpc[w] = "run" /\ ctxDone(w)
    /\ IF WorkType(w) = TEMPORARY
         THEN wpc' = [wpc EXCEPT ![w] = "rmCheck"] /\ wg' = wg
         ELSE wpc' = [wpc EXCEPT ![w] = "done"] /\ wg' = wg - 1
    /\ UNCHANGED <<poolVars, tempVars, panicked, jobNum, queue, Blocking,
                   callerVars, closerVars>>

(* --------------------------- removeFromParent -------------------------- *)
RECURSIVE rmLoop(_, _, _, _)
rmLoop(ws, id, l, r) ==
    IF ~(l < r) THEN [panic |-> FALSE, ws |-> ws]
    ELSE LET mid == l + GoDiv(l - r, 2) IN
         IF mid < 0 \/ mid >= Len(ws) THEN [panic |-> TRUE, ws |-> ws]
         ELSE IF ws[mid + 1] = id
           THEN [panic |-> FALSE,
                 ws |-> SubSeq(ws, 1, mid) \o SubSeq(ws, mid + 2, Len(ws))]
         ELSE IF ws[mid + 1] > id THEN rmLoop(ws, id, l, mid - 1)
         ELSE rmLoop(ws, id, mid + 1, r)

\* The body of removeFromParent that runs under lockTemporary.
removeFromParent(ws, id) ==
    LET lenTemp == Len(ws) IN
    IF lenTemp = 1 /\ ws[1] # id THEN [panic |-> FALSE, ws |-> ws]
    ELSE rmLoop(IF lenTemp = 1 THEN <<>> ELSE ws, id, 0, lenTemp - 1)

\* Line 210: the unlocked test of the registry.
RmCheck(w) ==
    /\ Running /\ wpc[w] = "rmCheck"
    /\ IF temporaryWorker.isNil \/ Len(temporaryWorker.ws) = 0
         THEN wpc' = [wpc EXCEPT ![w] = "done"] /\ wg' = wg - 1
         ELSE wpc' = [wpc EXCEPT ![w] = "rmLock"] /\ wg' = wg
    /\ UNCHANGED <<poolVars, tempVars, panicked, jobNum, queue, Blocking,
                   callerVars, closerVars>>

\* Lines 213-216: the lock is taken and p.temporaryWorker is read.
RmLock(w) ==
    /\ Running /\ wpc[w] = "rmLock" /\ lockTemporary = Free
    /\ lockTemporary' = ByWorker(w)
    /\ hdr' = temporaryWorker.ws
    /\ wpc' = [wpc EXCEPT ![w] = "rmBody"]
    /\ UNCHANGED <<poolVars, temporaryWorker, wg, panicked, jobNum, queue,
                   Blocking, callerVars, closerVars>>

\* Lines 216-241, the deferred Unlock, and the worker's exit.  The lock does
\* not exclude the store of line 156: when that store has replaced the
\* registry since line 216 read it, a later read of an element (lines 219,
\* 231-237) is out of range and panics, or the reads all came first and the
\* store of line 222 or 232, if there is one, overwrites that of line 156.
RmBody(w) ==
    /\ Running /\ wpc[w] = "rmBody"
    /\ LET r == removeFromParent(hdr, w)
           raced == temporaryWorker.ws # hdr IN
         \/ /\ r.panic \/ raced
            /\ panicked' = TRUE
            /\ UNCHANGED <<temporaryWorker, lockTemporary, hdr, wpc, wg>>
         \/ /\ ~r.panic
            /\ temporaryWorker' = IF r.ws # hdr THEN Slice(r.ws)
                                                 ELSE temporaryWorker
            /\ lockTemporary' = Free
            /\ hdr' = <<>>
            /\ wpc' = [wpc EXCEPT ![w] = "done"]
            /\ wg' = wg - 1
            /\ panicked' = panicked
    /\ UNCHANGED <<poolVars, jobNum, queue, Blocking, callerVars, closerVars>>

(* -------------------------------- DoJob -------------------------------- *)
SetFrame(c, f) == th' = [th EXCEPT ![c] = f]

\* Lines 87-93: the closed test, then the first selector call.
DoJobStart(c) ==
    /\ Running /\ th[c].pc = "idle"
    /\ calls[c] < limit.calls[c] /\ ops < limit.ops
    /\ calls' = [calls EXCEPT ![c] = @ + 1]
    /\ ops' = ops + 1
    /\ SetFrame(c, IF isClosed
                     THEN [IdleFrame EXCEPT !.ret = "false"]
                     ELSE [IdleFrame EXCEPT !.pc = "sel", !.stage = "fast"])
    /\ UNCHANGED <<poolVars, tempVars, wg, panicked, workerVars, closerVars>>

\* getTwoNums without its loop on num1 == num2.
getTwoNumsAny(num) == (0..(num - 1)) \X (0..(num - 1))

\* getTwoNums(num): the pairs of distinct indices it can return.
getTwoNums(num) == {p \in (0..(num - 1)) \X (0..(num - 1)) : p[1] # p[2]}

\* getWorkStep leaving its loop as soon as f yields a non-blocking worker.
AfterSelectEarly(f, r) ==
    LET g == [f EXCEPT !.w = r, !.w1 = NoWorker, !.w2 = NoWorker, !.arg = 0] IN
    IF f.stage = "fast" THEN [g EXCEPT !.pc = "chk1"]
    ELSE IF f.n < RetryNum /\ (r = NoWorker \/ Blocking[r])
      THEN [g EXCEPT !.pc = IF f.stage = "eternal" THEN "sel" ELSE "tNil"]
      ELSE [g EXCEPT !.pc = IF f.stage = "eternal" THEN "chk2" ELSE "chk3"]

\* The frame of DoJob when the selector it called returns r: the fast path
\* goes to the test of line 95; getWorkStep loops while n < num and returns
\* the last result to the test of line 99 or 103.
AfterSelect(f, r) ==
    LET g == [f EXCEPT !.w = r, !.w1 = NoWorker, !.w2 = NoWorker, !.arg = 0] IN
    IF f.stage = "fast" THEN [g EXCEPT !.pc = "chk1"]
    ELSE IF f.n < RetryNum
      THEN [g EXCEPT !.pc = IF f.stage = "eternal" THEN "sel" ELSE "tNil"]
      ELSE [g EXCEPT !.pc = IF f.stage = "eternal" THEN "chk2" ELSE "chk3"]

\* The deferred Unlock of getWorkerFromTemp.
Unlocked(c) == IF lockTemporary = ByCaller(c) THEN Free ELSE lockTemporary

\* getWorkFormEnternal, line 246: getTwoWorker is called and getTwoNums
\* entered.  Under getWorkStep this is one more iteration: <-ticker.C, n++.
SelCall(c) ==
    /\ Running /\ th[c].pc = "sel"
    /\ SetFrame(c, [th[c] EXCEPT !.pc = "rand",
                      !.n = IF th[c].stage = "fast" THEN 0 ELSE @ + 1,
                      !.ticks = IF th[c].stage = "fast" THEN 0 ELSE @ + 1])
    /\ UNCHANGED <<poolVars, tempVars, wg, panicked, workerVars, calls,
                   ops, closerVars>>

\* The slice and the length getTwoWorker was called with: the eternal
\* registry, or the temporary registry as line 175 read it.
Sampled(c) == IF th[c].stage = "temp" THEN hdr ELSE eternalWorker
SampledNum(c) == IF th[c].stage = "temp" THEN Len(hdr) ELSE conf.WorkerNum

\* Lines 137-150 and 248 / 176: getTwoNums returns, two workers are sampled
\* and the third argument of the first CompareAndSwap, w1.jobNum, is read.
\* p.randSource is one *rand.Rand used with no lock: while another caller is
\* inside getTwoNums too, Seed and Intn race on it and can panic.
SelPick(c) ==
    /\ Running /\ th[c].pc = "rand"
    /\ \/ /\ \E p \in getTwoNums(SampledNum(c)) :
               LET w1 == Sampled(c)[p[1] + 1]
                   w2 == Sampled(c)[p[2] + 1] IN
               SetFrame(c, [th[c] EXCEPT !.pc = "cas1", !.w1 = w1, !.w2 = w2,
                              !.arg = jobNum[w1]])
          /\ hdr' = IF th[c].stage = "temp" THEN <<>> ELSE hdr
          /\ panicked' = panicked
       \/ /\ \E d \in Callers \ {c} : th[d].pc = "rand"
          /\ panicked' = TRUE
          /\ UNCHANGED <<th, hdr>>
    /\ UNCHANGED <<poolVars, temporaryWorker, lockTemporary, wg, workerVars,
                   calls, ops, closerVars>>

\* atomic.CompareAndSwapInt64(&w.jobNum, old, new)
CasHits(w) == jobNum[w] = conf.WorkerContent
CompareAndSwap(w, new) ==
    jobNum' = IF CasHits(w) THEN [jobNum EXCEPT ![w] = new] ELSE jobNum

\* Lines 248 / 176: the first CompareAndSwap.
SelCas1(c) ==
    /\ Running /\ th[c].pc = "cas1"
    /\ CompareAndSwap(th[c].w1, th[c].arg)
    /\ SetFrame(c, [th[c] EXCEPT !.pc = IF CasHits(th[c].w1) THEN "read2"
                                                               ELSE "load1"])
    /\ UNCHANGED <<poolVars, tempVars, wg, panicked, wpc, queue, Blocking,
                   calls, ops, closerVars>>

\* Lines 249 / 177: the third argument of the second CompareAndSwap.
SelRead2(c) ==
    /\ Running /\ th[c].pc = "read2"
    /\ SetFrame(c, [th[c] EXCEPT !.pc = "cas2", !.arg = jobNum[th[c].w2]])
    /\ UNCHANGED <<poolVars, tempVars, wg, panicked, workerVars, calls,
                   ops, closerVars>>

\* Lines 249-250 / 177-178: the second CompareAndSwap; nil when it hits too.
SelCas2(c) ==
    /\ Running /\ th[c].pc = "cas2"
    /\ CompareAndSwap(th[c].w2, th[c].arg)
    /\ IF CasHits(th[c].w2)
         THEN /\ SetFrame(c, AfterSelect(th[c], NoWorker))
              /\ lockTemporary' = Unlocked(c)
         ELSE /\ SetFrame(c, [th[c] EXCEPT !.pc = "load1"])
              /\ lockTemporary' = lockTemporary
    /\ UNCHANGED <<poolVars, temporaryWorker, hdr, wg, panicked, wpc, queue,
                   Blocking, calls, ops, closerVars>>

\* Lines 253 / 181: atomic.LoadInt64(&w1.jobNum).
SelLoad1(c) ==
    /\ Running /\ th[c].pc = "load1"
    /\ SetFrame(c, [th[c] EXCEPT !.pc = "load2", !.arg = jobNum[th[c].w1]])
    /\ UNCHANGED <<poolVars, tempVars, wg, panicked, workerVars, calls,
                   ops, closerVars>>

\* The comparison of the two loads, reversed.
moreLoaded(a, b, x, y) == IF a > b THEN x ELSE y

\* Lines 253-257 / 181-185: the worker whose load is smaller, the second on
\* a tie.
lessLoaded(a, b, x, y) == IF a < b THEN x ELSE y

\* Lines 253-257 / 181-185: atomic.LoadInt64(&w2.jobNum) and the comparison.
SelLoad2(c) ==
    /\ Running /\ th[c].pc = "load2"
    /\ SetFrame(c, AfterSelect(th[c], lessLoaded(th[c].arg, jobNum[th[c].w2],
                                                  th[c].w1, th[c].w2)))
    /\ lockTemporary' = Unlocked(c)
    /\ UNCHANGED <<poolVars, temporaryWorker, hdr, wg, panicked, workerVars,
                   calls, ops, closerVars>>

\* w == nil || w.IsBlocking()
Inadmissible(w) == w = NoWorker \/ Blocking[w]

\* Line 95.
DoJobChk1(c) ==
    /\ Running /\ th[c].pc = "chk1"
    /\ SetFrame(c, IF Inadmissible(th[c].w)
                     THEN [th[c] EXCEPT !.pc = "sel", !.stage = "eternal", !.n = 0]
                     ELSE [th[c] EXCEPT !.pc = "chk2", !.stage = "none",
                                        !.fw = th[c].w])
    /\ UNCHANGED <<poolVars, tempVars, wg, panicked, workerVars, calls,
                   ops, closerVars>>

\* Line 99.
DoJobChk2(c) ==
    /\ Running /\ th[c].pc = "chk2"
    /\ SetFrame(c, IF Inadmissible(th[c].w)
                     THEN [th[c] EXCEPT !.pc = "tNil", !.stage = "temp", !.n = 0]
                     ELSE [th[c] EXCEPT !.pc = "chk3", !.stage = "none", !.n = 0])
    /\ UNCHANGED <<poolVars, tempVars, wg, panicked, workerVars, calls,
                   ops, closerVars>>

\* Line 103.
DoJobChk3(c) ==
    /\ Running /\ th[c].pc = "chk3"
    /\ SetFrame(c, [th[c] EXCEPT !.stage = "none", !.n = 0,
                      !.pc = IF Inadmissible(th[c].w) THEN "new" ELSE "send"])
    /\ UNCHANGED <<poolVars, tempVars, wg, panicked, workerVars, calls,
                   ops, closerVars>>

\* Line 108: return w.sendJob(job).
DoJobSend(c) ==
    /\ Running /\ th[c].pc = "send"
    /\ LET w == th[c].w IN
         IF sendJobOk(w)
           THEN /\ queue' = [queue EXCEPT ![w] = @ + 1]
                /\ jobNum' = [jobNum EXCEPT ![w] = @ + 1]
                /\ Blocking' = Blocking
                /\ SetFrame(c, [th[c] EXCEPT !.pc = "idle", !.ret = "true"])
           ELSE /\ Blocking' = [Blocking EXCEPT ![w] = TRUE]
                /\ UNCHANGED <<queue, jobNum>>
                /\ SetFrame(c, [th[c] EXCEPT !.pc = "idle", !.ret = "false"])
    /\ UNCHANGED <<poolVars, tempVars, wg, panicked, wpc, calls, ops, closerVars>>

(* -------------------------- getWorkerFromTemp -------------------------- *)
\* Line 155, one more iteration of getWorkStep: <-ticker.C, n++.
TempNil(c) ==
    /\ Running /\ th[c].pc = "tNil"
    /\ SetFrame(c, [th[c] EXCEPT !.n = @ + 1, !.ticks = @ + 1,
                      !.pc = IF temporaryWorker.isNil THEN "tMake" ELSE "tLen"])
    /\ UNCHANGED <<poolVars, tempVars, wg, panicked, workerVars, calls,
                   ops, closerVars>>

\* Lines 156-157: the registry is allocated, without the lock.
TempMake(c) ==
    /\ Running /\ th[c].pc = "tMake"
    /\ temporaryWorker' = Slice(<<>>)
    /\ SetFrame(c, AfterSelect(th[c], NoWorker))
    /\ UNCHANGED <<poolVars, lockTemporary, hdr, wg, panicked, workerVars,
                   calls, ops, closerVars>>

\* Lines 160-162.
TempLen(c) ==
    /\ Running /\ th[c].pc = "tLen"
    /\ SetFrame(c, IF Len(temporaryWorker.ws) = 0
                     THEN AfterSelect(th[c], NoWorker)
                     ELSE [th[c] EXCEPT !.pc = "tLock"])
    /\ UNCHANGED <<poolVars, tempVars, wg, panicked, workerVars, calls,
                   ops, closerVars>>

\* Line 163.
TempLock(c) ==
    /\ Running /\ th[c].pc = "tLock" /\ lockTemporary = Free
    /\ lockTemporary' = ByCaller(c)
    /\ SetFrame(c, [th[c] EXCEPT !.pc = "tTwo"])
    /\ UNCHANGED <<poolVars, temporaryWorker, hdr, wg, panicked, workerVars,
                   calls, ops, closerVars>>

\* Lines 165-167 and 175: a registry of one worker is special-cased, any
\* other is passed to getTwoWorker with its length; rand.Intn(0) panics.
TempPick(c) ==
    /\ Running /\ th[c].pc = "tTwo"
    /\ LET ws == temporaryWorker.ws IN
         IF Len(ws) = 1
           THEN /\ SetFrame(c, [th[c] EXCEPT !.pc = "tCasOne", !.w1 = ws[1],
                                  !.arg = jobNum[ws[1]]])
                /\ UNCHANGED <<panicked, hdr>>
         ELSE IF Len(ws) = 0
           THEN panicked' = TRUE /\ UNCHANGED <<th, hdr>>
         ELSE /\ SetFrame(c, [th[c] EXCEPT !.pc = "rand"])
              /\ hdr' = ws
              /\ panicked' = panicked
    /\ UNCHANGED <<poolVars, temporaryWorker, lockTemporary, wg, workerVars,
                   calls, ops, closerVars>>

\* Line 167: the CompareAndSwap on the only worker.
TempCasOne(c) ==
    /\ Running /\ th[c].pc = "tCasOne"
    /\ CompareAndSwap(th[c].w1, th[c].arg)
    /\ IF CasHits(th[c].w1)
         THEN /\ SetFrame(c, AfterSelect(th[c], NoWorker))
              /\ lockTemporary' = Unlocked(c)
         ELSE /\ SetFrame(c, [th[c] EXCEPT !.pc = "tBlkOne"])
              /\ lockTemporary' = lockTemporary
    /\ UNCHANGED <<poolVars, temporaryWorker, hdr, wg, panicked, wpc, queue,
                   Blocking, calls, ops, closerVars>>

\* Lines 167-171: w.IsBlocking() on the only worker.
TempBlkOne(c) ==
    /\ Running /\ th[c].pc = "tBlkOne"
    /\ SetFrame(c, AfterSelect(th[c], IF Blocking[th[c].w1] THEN NoWorker
                                                             ELSE th[c].w1))
    /\ lockTemporary' = Unlocked(c)
    /\ UNCHANGED <<poolVars, temporaryWorker, hdr, wg, panicked, workerVars,
                   calls, ops, closerVars>>

(* ---------------------------- newTempWorker ---------------------------- *)
\* Lines 191-200: a worker with a fresh identity is created and started.
NewTempWorker(c) ==
    /\ Running /\ th[c].pc = "new"
    /\ \E id \in TempIds :
         /\ wpc[id] = "none"
         /\ wpc' = [wpc EXCEPT ![id] = "run"]
         /\ SetFrame(c, [th[c] EXCEPT !.pc = "newLock", !.w = id, !.sp = id])
    /\ wg' = wg + 1
    /\ UNCHANGED <<poolVars, tempVars, panicked, jobNum, queue, Blocking,
                   calls, ops, closerVars>>

\* Lines 201-202: the lock is taken and p.temporaryWorker is read for the
\* append.
NewTempLock(c) ==
    /\ Running /\ th[c].pc = "newLock" /\ lockTemporary = Free
    /\ lockTemporary' = ByCaller(c)
    /\ hdr' = temporaryWorker.ws
    /\ SetFrame(c, [th[c] EXCEPT !.pc = "newAppend"])
    /\ UNCHANGED <<poolVars, temporaryWorker, wg, panicked, workerVars,
                   calls, ops, closerVars>>

\* Lines 202-205: the result of the append is stored.  It was computed from
\* the registry as line 202 read it, before or after a store of line 156
\* that ran meanwhile without the lock.
NewTempAppend(c) ==
    /\ Running /\ th[c].pc = "newAppend"
    /\ \E old \in {hdr, temporaryWorker.ws} :
         temporaryWorker' = Slice(Append(old, th[c].w))
    /\ lockTemporary' = Free
    /\ hdr' = <<>>
    /\ SetFrame(c, [th[c] EXCEPT !.pc = "send"])
    /\ UNCHANGED <<poolVars, wg, panicked, workerVars, calls, ops, closerVars>>

(* -------------------------------- Next --------------------------------- *)
\* Each function on DoJob's path is one action: the step at the caller's
\* position in it.
DoJob(c) ==
    CASE th[c].pc = "idle" -> DoJobStart(c)
      [] th[c].pc = "chk1" -> DoJobChk1(c)
      [] th[c].pc = "chk2" -> DoJobChk2(c)
      [] th[c].pc = "chk3" -> DoJobChk3(c)
      [] th[c].pc = "send" -> DoJobSend(c)
      [] OTHER -> FALSE

\* Lines 175-185 of getWorkerFromTemp are the same two-sample selection and
\* run through the same steps, holding the lock.
getWorkFormEnternal(c) ==
    CASE th[c].pc = "sel" -> SelCall(c)
      [] th[c].pc = "rand" -> SelPick(c)
      [] th[c].pc = "cas1" -> SelCas1(c)
      [] th[c].pc = "read2" -> SelRead2(c)
      [] th[c].pc = "cas2" -> SelCas2(c)
      [] th[c].pc = "load1" -> SelLoad1(c)
      [] th[c].pc = "load2" -> SelLoad2(c)
      [] OTHER -> FALSE

getWorkerFromTemp(c) ==
    CASE th[c].pc = "tNil" -> TempNil(c)
      [] th[c].pc = "tMake" -> TempMake(c)
      [] th[c].pc = "tLen" -> TempLen(c)
      [] th[c].pc = "tLock" -> TempLock(c)
      [] th[c].pc = "tTwo" -> TempPick(c)
      [] th[c].pc = "tCasOne" -> TempCasOne(c)
      [] th[c].pc = "tBlkOne" -> TempBlkOne(c)
      [] OTHER -> FALSE

newTempWorker(c) ==
    CASE th[c].pc = "new" -> NewTempWorker(c)
      [] th[c].pc = "newLock" -> NewTempLock(c)
      [] th[c].pc = "newAppend" -> NewTempAppend(c)
      [] OTHER -> FALSE

PoolStep == NewPoolPanic \/ NewPoolAlloc \/ startPoolSpawn \/ startPoolOpen

CloseStep == \E k \in Closers : CloseCheck(k) \/ CloseDec(k) \/ CloseCancel(k)

WorkerStep ==
    \E w \in WorkerIds :
        WorkerJob(w) \/ WorkerCancel(w) \/ RmCheck(w) \/ RmLock(w) \/ RmBody(w)

DoJobStep ==
    \E c \in Callers :
        \/ DoJob(c)
        \/ getWorkFormEnternal(c)
        \/ getWorkerFromTemp(c)
        \/ newTempWorker(c)

Next == PoolStep \/ CloseStep \/ WorkerStep \/ DoJobStep

Spec == Init /\ [][Next]_vars

SpecSeq == InitSeq /\ [][Next]_vars

SpecDrain == InitDrain /\ [][Next]_vars

\* A burst of jobs: the workers complete no job while it is submitted.
BurstWorker ==
    \E w \in WorkerIds :
        WorkerCancel(w) \/ RmCheck(w) \/ RmLock(w) \/ RmBody(w)

NextBurst == PoolStep \/ BurstWorker \/ DoJobStep

SpecBurst == InitBurst /\ [][NextBurst]_vars

\* The temporary workers of a registry expire and unregister themselves.
SpecRemove == InitRemove /\ [][BurstWorker]_vars

(* ============================== claims ================================= *)
InRegistry(w) ==
    \E i \in 1..Len(temporaryWorker.ws) : temporaryWorker.ws[i] = w

Spawned == {w \in TempIds : wpc[w] # "none"}

\* A Close call has returned.
CloseReturned == \E k \in Closers : closes[k] > 0 /\ cl[k] = "idle"

\* C1: in every reachable state every worker's jobNum is between 0 and the
\* capacity conf.WorkerContent.
C1_JobNumInRange ==
    \A w \in WorkerIds : 0 <= jobNum[w] /\ jobNum[w] <= conf.WorkerContent

\* C2: once a Close call has taken effect on the constructed pool, isClosed()
\* stays true in every later state.
C2_ClosedMonotonic == [][(poolpc = "ready" /\ isClosed) => isClosed']_vars

\* C3: a DoJob call that starts after a Close call has returned returns false
\* at once and changes no worker, no registry and no WaitGroup counter.
C3_DoJobAfterClose ==
    [][\A c \in Callers :
          (CloseReturned /\ calls'[c] = calls[c] + 1)
          => /\ th'[c].pc = "idle" /\ th'[c].ret = "false"
             /\ UNCHANGED <<jobNum, queue, Blocking, wpc, temporaryWorker, wg>>]_vars

\* C4: a Close call made after an earlier Close call of the same goroutine
\* has returned returns at once and leaves the closed flag, the cancelled
\* master context and both registries as the first call left them.
C4_CloseIdempotent ==
    [][\A k \in Closers :
          (closes[k] >= 1 /\ closes'[k] = closes[k] + 1)
          => /\ cl'[k] = "idle"
             /\ isClosed' /\ cancelled'
             /\ UNCHANGED <<isClose, cancelled, eternalWorker, temporaryWorker>>]_vars

C4_Witness ==
    /\ closes[1] = 2 /\ cl[1] = "idle" /\ isClosed /\ cancelled
    /\ eternalWorker # <<>>

\* C5: every step that changes the temporary registry is taken by a thread
\* that holds lockTemporary.
C5_MutationUnderLock ==
    [][\/ temporaryWorker' = temporaryWorker
       \/ \E c \in Callers : lockTemporary = ByCaller(c) /\ th'[c] # th[c]
       \/ \E w \in WorkerIds : lockTemporary = ByWorker(w) /\ wpc'[w] # wpc[w]]_vars

\* C6: a temporary worker whose context was cancelled and which has run to
\* its exit is absent from the temporary registry once the program is at rest.
C6_CancelledAbsent ==
    \A w \in TempIds : (wpc[w] = "done" /\ ~ENABLED Next) => ~InRegistry(w)

\* C7: a DoJob call that spawned a temporary worker returns true.
C7_SpawnAdmits ==
    \A c \in Callers :
        (th[c].pc = "idle" /\ th[c].sp # NoWorker) => th[c].ret = "true"

\* C8: once NewPool has returned, the eternal registry holds exactly the
\* workers 1..WorkerNum, all started, and the pool is open until a Close.
C8_EternalRegistry ==
    poolpc = "ready"
    => /\ Len(eternalWorker) = conf.WorkerNum
       /\ \A i \in 1..conf.WorkerNum :
             eternalWorker[i] = i /\ wpc[i] # "none"
       /\ (ops = 0 => isClose = OpenFlag)

C8_Witness ==
    /\ poolpc = "ready" /\ Len(eternalWorker) = conf.WorkerNum
    /\ cancelled /\ calls[1] = limit.calls[1]
    /\ \E w \in TempIds : wpc[w] = "done" /\ ~InRegistry(w)

\* C9: with 2 eternal workers of capacity C, an open pool and no job
\* completing, each of the first 2*C calls of DoJob returns true with the job
\* on an eternal worker and the temporary registry untouched, and call 2*C+1
\* spawns exactly one temporary worker and returns true.
C9_Burst ==
    (/\ conf.WorkerNum = 2 /\ \A k \in Closers : closes[k] = 0
     /\ th[1].pc = "idle" /\ calls[1] >= 1)
    => LET C == conf.WorkerContent IN
       /\ calls[1] <= 2 * C
          => /\ th[1].ret = "true" /\ th[1].w \in 1..2 /\ th[1].sp = NoWorker
             /\ temporaryWorker = NilSlice /\ Spawned = {}
       /\ calls[1] = 2 * C + 1
          => /\ th[1].ret = "true" /\ th[1].sp # NoWorker
             /\ th[1].w = th[1].sp /\ Cardinality(Spawned) = 1

C9_Witness ==
    /\ conf.WorkerNum = 2 /\ \A k \in Closers : closes[k] = 0
    /\ th[1].pc = "idle" /\ calls[1] = 2 * conf.WorkerContent + 1
    /\ th[1].ret = "true" /\ Cardinality(Spawned) = 1
    /\ \A w \in 1..2 : queue[w] = conf.WorkerContent

\* C10: once the master context is cancelled and the program is at rest,
\* every spawned worker has exited and the WaitGroup counter is zero.
C10_DrainAfterClose ==
    (cancelled /\ ~ENABLED Next)
    => wg = 0 /\ \A w \in WorkerIds : wpc[w] \in {"none", "done"}

\* C11: on a pool that is never closed every DoJob call receives at most
\* 2 * 3 ticks, and once the program is at rest every call that was started
\* has returned: no selector call is left unfinished.
C11_DoJobTerminates ==
    /\ \A c \in Callers : th[c].ticks <= 2 * RetryNum
    /\ ~ENABLED NextBurst => \A c \in Callers : th[c].pc = "idle"

\* C12: a worker count below 2 makes NewPool panic with nothing done: no
\* worker started, the WaitGroup counter untouched, no pool to call.
C12_NewPoolPanics ==
    conf.WorkerNum < MinWorkerNum
    => /\ poolpc = "NewPool" /\ eternalWorker = <<>> /\ wg = 0
       /\ \A w \in WorkerIds : wpc[w] = "none"
       /\ isClose = ClosedFlag /\ ops = 0
       /\ ~ENABLED Next => panicked

C12_Witness ==
    /\ conf.WorkerNum < MinWorkerNum /\ panicked
    /\ poolpc = "NewPool" /\ wg = 0

\* The registry ws without worker id, the others in their order.
Without(ws, id) == SelectSeq(ws, LAMBDA x : x # id)

\* C13: the locked body of removeFromParent(id), run on a registry that holds
\* id, removes exactly that worker and keeps the order of the others.
C13_RemoveExact ==
    [][\A w \in TempIds :
          (/\ wpc[w] = "rmBody" /\ InRegistry(w)
           /\ (wpc'[w] # wpc[w] \/ panicked' # panicked))
          => /\ ~panicked'
             /\ temporaryWorker'.ws = Without(temporaryWorker.ws, w)]_vars

\* C14: a DoJob call starts polling the temporary registry only after the
\* eternal retry has run its 3 ticks and left no admissible worker, spawns
\* only after the temporary retry has run its 3 ticks as well and left no
\* admissible worker, and spawns at most once.
C14_EscalationOrder ==
    [][\A c \in Callers :
          /\ (th'[c].stage = "temp" /\ th[c].stage # "temp")
             => th[c].ticks = RetryNum /\ Inadmissible(th[c].w)
          /\ (th'[c].pc = "new" /\ th[c].pc # "new")
             => /\ th[c].ticks = 2 * RetryNum /\ Inadmissible(th[c].w)
                /\ th[c].sp = NoWorker]_vars

\* C15: getWorkStep(3, 1, f) leaves its loop when, and only when, the call of
\* f that returns is the 3rd, each call one tick after the last, and what it
\* returns is the result of that call: nil or one of the workers it sampled.
C15_RetryThreeTimes ==
    [][\A c \in Callers :
          LET f == th[c]
              g == th'[c] IN
          /\ (/\ f.stage \in {"eternal", "temp"} /\ f.pc \notin {"chk2", "chk3"}
              /\ g # f /\ g.pc \in {"sel", "tNil", "chk2", "chk3"})
             => /\ g.pc \in {"chk2", "chk3"} <=> f.n = RetryNum
                /\ g.w \in {NoWorker, f.w1, f.w2}
                /\ g.ticks = f.ticks /\ g.n = f.n
          /\ g.n = f.n + 1 <=> g.ticks = f.ticks + 1]_vars

C15_Witness ==
    \E c \in Callers :
        /\ th[c].stage \in {"eternal", "temp"} /\ th[c].pc \in {"sel", "tNil"}
        /\ th[c].n \in 1..(RetryNum - 1)
        /\ ~Inadmissible(th[c].w)

\* C16: a DoJob call whose first selector call yielded a worker that the test
\* of line 95 found not blocking receives no tick, polls and spawns nothing
\* and returns the result of sendJob on that worker; the first call on a
\* fresh pool returns true.
C16_FastPath ==
    \A c \in Callers :
        /\ th[c].fw # NoWorker
           => /\ th[c].pc \in {"chk2", "chk3", "send", "idle"}
              /\ th[c].ticks = 0 /\ th[c].sp = NoWorker
              /\ th[c].w = th[c].fw
        /\ (ops = 1 /\ calls[c] = 1 /\ th[c].pc = "idle") => th[c].ret = "true"

\* C17: with load counters that do not change during the call, two-sample
\* selection works on two different workers, returns nil exactly when both
\* are at the capacity and otherwise the one of the two that is not more
\* loaded than the other, whose jobNum is below the capacity.
C17_TwoSample ==
    [][\A c \in Callers :
          LET f == th[c]
              g == th'[c]
              cap == conf.WorkerContent IN
          /\ f.pc \in {"cas1", "read2", "cas2", "load1", "load2"} => f.w1 # f.w2
          /\ (f.pc = "cas2" /\ g # f /\ g.pc # "load1")
             => /\ g.w = NoWorker
                /\ jobNum[f.w1] >= cap /\ jobNum[f.w2] >= cap
          /\ (f.pc = "load2" /\ g # f)
             => /\ ~(jobNum[f.w1] >= cap /\ jobNum[f.w2] >= cap)
                /\ g.w \in {f.w1, f.w2}
                /\ \A v \in {f.w1, f.w2} : jobNum[g.w] <= jobNum[v]
                /\ jobNum[g.w] < cap
          /\ (f.pc \in {"cas1", "read2", "cas2", "load1", "load2"} /\ g # f)
             => jobNum' = jobNum]_vars

C17_Witness ==
    \E c \in Callers :
        /\ th[c].pc = "chk1" /\ th[c].w \in 1..conf.WorkerNum
        /\ jobNum[th[c].w] < conf.WorkerContent
        /\ \E v \in 1..conf.WorkerNum :
              v # th[c].w /\ jobNum[v] = conf.WorkerContent

\* The positions of a caller inside getWorkFormEnternal and getWorkerFromTemp.
SelectorPcs ==
    {"sel", "rand", "cas1", "read2", "cas2", "load1", "load2",
     "tNil", "tMake", "tLen", "tLock", "tTwo", "tCasOne", "tBlkOne"}

\* C18: no step of a selector call changes any worker's jobNum.
C18_SelectorReadsOnly ==
    [][\A c \in Callers :
          (th[c].pc \in SelectorPcs /\ th'[c] # th[c]) => jobNum' = jobNum]_vars

\* C19: when getWorkerFromTemp, holding the lock, finds the registry not of
\* length 1 and goes to getTwoWorker, the registry has 2 entries or more.
C19_TwoSampleSize ==
    \A c \in Callers :
        (th[c].pc = "tTwo" /\ Len(temporaryWorker.ws) # 1)
        => Len(temporaryWorker.ws) >= 2

\* C20: whatever the registry and the id, present or absent, the locked body
\* of removeFromParent computes no index outside the registry.
C20_RemoveInRange ==
    \A w \in TempIds :
        wpc[w] = "rmBody" => ~removeFromParent(temporaryWorker.ws, w).panic
====
